---- MODULE Spec2Model ----
(***************************************************************************)
(* queuectl: a SQLite-backed job queue (src/src/database.py), its worker   *)
(* loop and claim protocol (src/src/worker.py) and the worker-pool         *)
(* commands (src/src/cli.py).                                              *)
(*                                                                         *)
(* The jobs table is a function from the ids in use to rows; the config    *)
(* table a function from its two keys to integers.  Every database         *)
(* statement is one atomic step.  Python's sqlite3 opens the EXCLUSIVE     *)
(* transaction of acquire_job_atomically only in front of the UPDATE, so   *)
(* its SELECT and its UPDATE are two steps of a worker.  The column        *)
(* updated_at is written by every statement and read by none of the        *)
(* modelled operations (only list's ORDER BY), so it is not carried.       *)
(* Time is a coarse clock `now`, read for next_run_at.  created_at is     *)
(* only ever compared with other created_at values (ORDER BY), and         *)
(* utcnow() has microsecond resolution, so a row's created_at is the rank  *)
(* of its insert.  A nullable column holds <<>> for NULL and <<v>> for a   *)
(* value.                                                                  *)
(***************************************************************************)
EXTENDS Integers, FiniteSets, Sequences, TLC

\* ------------------------------------------------------------------ bounds
MaxJobs == 2            \* job ids of the store and race specifications
SoloJobs == 1           \* job ids of the worker and pool specifications
MaxWorkers == 2         \* worker processes, over every start
MaxStarts == 2          \* invocations of worker start
RaceWorkers == 3        \* callers of acquire_job_atomically in the race
MaxTime == 2            \* the clock stops here
MaxRuns == 3            \* executions of one job between two dlq retries
MaxPayloadRetries == 1  \* largest max_retries of an enqueue payload
MaxConfigValue == 1     \* largest value given to config set
MaxAttempts == 2        \* attempts of a job that times out are counted up to here

\* --------------------------------------------------------- program constants
DefaultMaxRetries == 3
DefaultBackoffBase == 2

JobIds == 1..MaxJobs
SoloIds == 1..SoloJobs
Workers == 1..MaxWorkers
Starters == 1..MaxStarts
Racers == 1..RaceWorkers
Commands == {"ok", "fail", "hang"}
States == <<"pending", "processing", "completed", "failed", "dead">>
StateSet == {States[i] : i \in 1..Len(States)}
ConfigKeys == {"max_retries", "backoff_base"}
ConfigValues == 1..MaxConfigValue
NULL == <<>>
Some(v) == <<v>>

VARIABLES
    jobs,        \* the jobs table: id -> row
    config,      \* the config table: key -> value
    now,         \* datetime.utcnow()
    pc,          \* per worker process: its position in run_worker
    wjob,        \* per worker: the row read by the SELECT of acquire_job_atomically
    registry,    \* the file WORKER_PID_FILE: NULL when absent, else <<pids>>
    stop_event,  \* per start command: its multiprocessing.Event
    sup,         \* per start command: its position and its list `workers`
    runs,        \* per job: commands launched since enqueue or the last dlq retry
    enqueued,    \* number of insert_job calls that returned True
    out          \* what the last enqueue / dlq retry command reported

vars == <<jobs, config, now, pc, wjob, registry, stop_event, sup, runs, enqueued, out>>

\* ------------------------------------------------------------- database.py
init_db == [k \in ConfigKeys |->
              IF k = "max_retries" THEN DefaultMaxRetries ELSE DefaultBackoffBase]

get_config(cfg, key) == cfg[key]

set_config(cfg, key, value) == [cfg EXCEPT ![key] = value]

\* INSERT OR REPLACE INTO jobs: a duplicate id overwrites the row
insert_or_replace_job(tbl, cfg, t, job_data) ==
    [ok |-> TRUE,
     jobs |-> [i \in DOMAIN tbl \cup {job_data.id} |->
                 IF i = job_data.id
                   THEN [command |-> job_data.command, state |-> "pending",
                         attempts |-> 0,
                         max_retries |-> IF job_data.max_retries = NULL
                                           THEN cfg["max_retries"]
                                           ELSE job_data.max_retries[1],
                         created_at |-> t, next_run_at |-> NULL,
                         error_message |-> NULL]
                   ELSE tbl[i]]]

\* job_data: [id, command, max_retries] with max_retries nullable (absent key)
insert_job(tbl, cfg, t, job_data) ==
    LET default_max_retries == get_config(cfg, "max_retries")
        job_record == [command |-> job_data.command,
                       state |-> "pending",
                       attempts |-> 0,
                       max_retries |-> IF job_data.max_retries = NULL
                                         THEN default_max_retries
                                         ELSE job_data.max_retries[1],
                       created_at |-> t,
                       next_run_at |-> NULL,
                       error_message |-> NULL]
    IN  IF job_data.id \in DOMAIN tbl
          THEN [ok |-> FALSE, jobs |-> tbl]
          ELSE [ok |-> TRUE,
                jobs |-> [i \in DOMAIN tbl \cup {job_data.id} |->
                            IF i = job_data.id THEN job_record ELSE tbl[i]]]

\* the same UPDATE writing 'done' for 'completed': a state status never counts
update_job_state_done(tbl, job_id, state, attempts, next_run_at, error_message) ==
    IF job_id \notin DOMAIN tbl THEN tbl
    ELSE [tbl EXCEPT ![job_id] =
            [@ EXCEPT !.state = IF state = "completed" THEN "done" ELSE state,
                      !.attempts = IF attempts = NULL THEN @ ELSE attempts[1],
                      !.next_run_at = next_run_at,
                      !.error_message = error_message]]

\* UPDATE jobs SET ... WHERE id = ?  (attempts nullable: None keeps the column)
update_job_state(tbl, job_id, state, attempts, next_run_at, error_message) ==
    IF job_id \notin DOMAIN tbl THEN tbl
    ELSE [tbl EXCEPT ![job_id] =
            [@ EXCEPT !.state = state,
                      !.attempts = IF attempts = NULL THEN @ ELSE attempts[1],
                      !.next_run_at = next_run_at,
                      !.error_message = error_message]]

get_job_status_summary(tbl) ==
    [s \in {tbl[i].state : i \in DOMAIN tbl} |->
        Cardinality({i \in DOMAIN tbl : tbl[i].state = s})]

get_jobs_by_state(tbl, state) == {i \in DOMAIN tbl : tbl[i].state = state}

\* cli.py status: summary.get(state, 0) for the five states, and their total
status_count(tbl, state) ==
    LET summary == get_job_status_summary(tbl)
    IN  IF state \in DOMAIN summary THEN summary[state] ELSE 0

RECURSIVE status_total(_, _)
status_total(tbl, n) ==
    IF n = 0 THEN 0 ELSE status_total(tbl, n - 1) + status_count(tbl, States[n])

\* the UPDATE of retry_dlq_job without `AND state = 'dead'`
retry_dlq_job_any_state(tbl, job_id) ==
    IF job_id \in DOMAIN tbl
      THEN [ok |-> TRUE,
            jobs |-> [tbl EXCEPT ![job_id] =
                        [@ EXCEPT !.state = "pending", !.attempts = 0,
                                  !.next_run_at = NULL, !.error_message = NULL]]]
      ELSE [ok |-> FALSE, jobs |-> tbl]

retry_dlq_job(tbl, job_id) ==
    IF job_id \in DOMAIN tbl /\ tbl[job_id].state = "dead"
      THEN [ok |-> TRUE,
            jobs |-> [tbl EXCEPT ![job_id] =
                        [@ EXCEPT !.state = "pending", !.attempts = 0,
                                  !.next_run_at = NULL, !.error_message = NULL]]]
      ELSE [ok |-> FALSE, jobs |-> tbl]

\* --------------------------------------------------------------- worker.py
\* rows the SELECT of acquire_job_atomically may return (ties on created_at
\* are returned in an order SQL leaves open)
select_due(tbl, t) ==
    LET due == {i \in DOMAIN tbl :
                  /\ tbl[i].state = "pending"
                  /\ (tbl[i].next_run_at = NULL \/ tbl[i].next_run_at[1] <= t)}
    IN  {i \in due : \A k \in due : tbl[i].created_at <= tbl[k].created_at}

\* UPDATE jobs SET state = 'processing' WHERE id = ? AND state = 'pending'
claim_update(tbl, job_id) ==
    IF job_id \in DOMAIN tbl /\ tbl[job_id].state = "pending"
      THEN [rowcount |-> 1, jobs |-> [tbl EXCEPT ![job_id].state = "processing"]]
      ELSE [rowcount |-> 0, jobs |-> tbl]

RECURSIVE Pow(_, _)
Pow(b, n) == IF n = 0 THEN 1 ELSE b * Pow(b, n - 1)

\* the delay computed from the default base, whatever the config table holds
backoff_delay_default(backoff_base, attempts) == Pow(DefaultBackoffBase, attempts)

\* delay = backoff_base ** attempts
backoff_delay(backoff_base, attempts) == Pow(backoff_base, attempts)

\* `if attempts >= max_retries`: the budget taken as the number of attempts
exhausted_at_budget(attempts, max_retries) == attempts >= max_retries

\* `if attempts > max_retries`
exhausted(attempts, max_retries) == attempts > max_retries

Init ==
    /\ jobs = << >>
    /\ config = init_db
    /\ now = 0
    /\ pc = [w \in Workers |-> "unborn"]
    /\ wjob = [w \in Workers |-> NULL]
    /\ registry = NULL
    /\ stop_event = [s \in Starters |-> FALSE]
    /\ sup = [s \in Starters |-> [at |-> "idle", workers |-> {}]]
    /\ runs = [i \in JobIds |-> 0]
    /\ enqueued = 0
    /\ out = "none"

\* datetime.utcnow() advances
Tick ==
    /\ now < MaxTime
    /\ now' = now + 1
    /\ UNCHANGED <<jobs, config, pc, wjob, registry, stop_event, sup, runs, enqueued, out>>

\* ------------------------------------------------------------------ cli.py
Payloads == {NULL} \cup {Some(r) : r \in 0..MaxPayloadRetries}
JobData(ids, commands, payloads) ==
    [id : ids, command : commands, max_retries : payloads]

\* queuectl enqueue '{"id": ..., "command": ..., "max_retries": ...}'
enqueue(job_data) ==
    LET r == insert_job(jobs, config, enqueued, job_data)
    IN  /\ jobs' = r.jobs
        /\ enqueued' = IF r.ok THEN enqueued + 1 ELSE enqueued
        /\ out' = IF r.ok THEN "enqueued" ELSE "duplicate"
        /\ UNCHANGED <<config, now, pc, wjob, registry, stop_event, sup, runs>>

\* a config set that also rewrites max_retries in the rows of the jobs table
config_set_rewriting_jobs(key, value) ==
    /\ config' = set_config(config, key, value)
    /\ jobs' = [i \in DOMAIN jobs |->
                  IF key = "max_retries" THEN [jobs[i] EXCEPT !.max_retries = value]
                                         ELSE jobs[i]]
    /\ UNCHANGED <<now, pc, wjob, registry, stop_event, sup, runs, enqueued, out>>

\* queuectl config set KEY VALUE
config_set(key, value) ==
    /\ config' = set_config(config, key, value)
    /\ UNCHANGED <<jobs, now, pc, wjob, registry, stop_event, sup, runs, enqueued, out>>

\* queuectl dlq retry JOB_ID
retry(job_id) ==
    LET r == retry_dlq_job(jobs, job_id)
    IN  /\ jobs' = r.jobs
        /\ out' = IF r.ok THEN "retried" ELSE "not_dead"
        /\ runs' = IF r.ok THEN [runs EXCEPT ![job_id] = 0] ELSE runs
        /\ UNCHANGED <<config, now, pc, wjob, registry, stop_event, sup, enqueued>>

\* ----------------------------------------------------- worker.py: run_worker
Alive(w) == pc[w] \in {"poll", "selected", "running", "wrote"}

\* the start command that launched w, whose Event was handed to run_worker
boss(w) == CHOOSE s \in Starters : w \in sup[s].workers

\* `while not stop_event.is_set()` found the event set
WorkerExit(w) ==
    /\ pc[w] = "poll"
    /\ stop_event[boss(w)]
    /\ pc' = [pc EXCEPT ![w] = "exited"]
    /\ UNCHANGED <<jobs, config, now, wjob, registry, stop_event, sup, runs, enqueued, out>>

\* the SELECT of acquire_job_atomically by process w; without a row the call
\* returns None and w goes to `miss`
acquire_select(w, miss) ==
    \/ /\ select_due(jobs, now) = {}
       /\ pc' = [pc EXCEPT ![w] = miss]
       /\ UNCHANGED wjob
    \/ \E i \in select_due(jobs, now) :
         /\ wjob' = [wjob EXCEPT ![w] =
                       Some([id |-> i, command |-> jobs[i].command,
                             attempts |-> jobs[i].attempts,
                             max_retries |-> jobs[i].max_retries])]
         /\ pc' = [pc EXCEPT ![w] = "selected"]

\* the guarded UPDATE of acquire_job_atomically: commit and return the row
\* read by the SELECT, or rollback and return None
acquire_update(w, hit, miss) ==
    LET r == claim_update(jobs, wjob[w][1].id)
    IN  /\ jobs' = r.jobs
        /\ IF r.rowcount = 1
             THEN /\ pc' = [pc EXCEPT ![w] = hit]
                  /\ UNCHANGED wjob
             ELSE /\ pc' = [pc EXCEPT ![w] = miss]
                  /\ wjob' = [wjob EXCEPT ![w] = NULL]

\* the loop test passed; the first half of acquire_job_atomically
WorkerSelect(w) ==
    /\ pc[w] = "poll"
    /\ ~stop_event[boss(w)]
    /\ acquire_select(w, "poll")
    /\ UNCHANGED <<jobs, config, now, registry, stop_event, sup, runs, enqueued, out>>

\* the second half; on None the worker sleeps and polls again
WorkerClaim(w) ==
    /\ pc[w] = "selected"
    /\ acquire_update(w, "running", "poll")
    /\ UNCHANGED <<config, now, registry, stop_event, sup, runs, enqueued, out>>

\* sqlite3.Error inside acquire_job_atomically: rollback, return None
WorkerClaimStoreError(w) ==
    /\ pc[w] = "selected"
    /\ pc' = [pc EXCEPT ![w] = "poll"]
    /\ wjob' = [wjob EXCEPT ![w] = NULL]
    /\ UNCHANGED <<jobs, config, now, registry, stop_event, sup, runs, enqueued, out>>

\* what subprocess.run gives for a command; spawn_fault is any other
\* exception it raises, config_fault an exception of get_config
CommandResult(command) ==
    CASE command = "ok" -> "exit0"
      [] command = "fail" -> "exit1"
      [] command = "hang" -> "timeout"

\* the table after the body of the try statement, or one of its handlers,
\* has written the result of one execution
result_write(tbl, cfg, t, job, result) ==
    LET attempts == job.attempts + 1
    IN  CASE result = "exit0" ->
               update_job_state(tbl, job.id, "completed", NULL, NULL, NULL)
          [] result = "exit1" /\ exhausted(attempts, job.max_retries) ->
               update_job_state(tbl, job.id, "dead", Some(attempts), NULL, Some("exit"))
          [] result = "exit1" /\ ~exhausted(attempts, job.max_retries) ->
               update_job_state(tbl, job.id, "pending", Some(attempts),
                   Some(t + backoff_delay(get_config(cfg, "backoff_base"), attempts)),
                   Some("exit"))
          [] result = "timeout" ->
               update_job_state(tbl, job.id, "pending", Some(attempts), NULL,
                                Some("timeout"))
          [] OTHER ->
               update_job_state(tbl, job.id, "pending", Some(job.attempts), NULL,
                                Some("internal"))

PossibleResults(job) ==
    {CommandResult(job.command), "spawn_fault"}
      \cup IF job.command = "fail" /\ ~exhausted(job.attempts + 1, job.max_retries)
             THEN {"config_fault"} ELSE {}

\* subprocess.run and the write of its result; stored = FALSE is a
\* sqlite3.Error inside update_job_state, which returns False
WorkerRun(w, result, stored) ==
    /\ pc[w] = "running"
    /\ LET job == wjob[w][1]
       IN  /\ runs[job.id] < MaxRuns
           /\ result \in PossibleResults(job)
           /\ runs' = IF result = "spawn_fault" THEN runs
                      ELSE [runs EXCEPT ![job.id] = @ + 1]
           /\ jobs' = IF stored THEN result_write(jobs, config, now, job, result)
                      ELSE jobs
           /\ IF result \in {"exit0", "exit1"}
                THEN /\ pc' = [pc EXCEPT ![w] = "wrote"]
                     /\ UNCHANGED wjob
                ELSE /\ pc' = [pc EXCEPT ![w] = "poll"]
                     /\ wjob' = [wjob EXCEPT ![w] = NULL]
    /\ UNCHANGED <<config, now, registry, stop_event, sup, enqueued, out>>

\* the print after the write, and time.sleep(0.05)
WorkerPrinted(w) ==
    /\ pc[w] = "wrote"
    /\ pc' = [pc EXCEPT ![w] = "poll"]
    /\ wjob' = [wjob EXCEPT ![w] = NULL]
    /\ UNCHANGED <<jobs, config, now, registry, stop_event, sup, runs, enqueued, out>>

\* the print after the write raises: `except Exception` writes again
WorkerPrintFault(w, stored) ==
    /\ pc[w] = "wrote"
    /\ jobs' = IF stored
                 THEN result_write(jobs, config, now, wjob[w][1], "print_fault")
                 ELSE jobs
    /\ pc' = [pc EXCEPT ![w] = "poll"]
    /\ wjob' = [wjob EXCEPT ![w] = NULL]
    /\ UNCHANGED <<config, now, registry, stop_event, sup, runs, enqueued, out>>

\* ------------------------------------------------- cli.py: worker start/stop
\* start without the test of os.path.exists(WORKER_PID_FILE)
StartCheckAlways(s) ==
    /\ sup[s].at = "idle"
    /\ sup' = [sup EXCEPT ![s].at = "checked"]
    /\ UNCHANGED <<jobs, config, now, pc, wjob, registry, stop_event, runs, enqueued, out>>

\* os.path.exists(WORKER_PID_FILE) at the head of start: with the file
\* present the command prints its error and returns
StartCheck(s) ==
    /\ sup[s].at = "idle"
    /\ sup' = [sup EXCEPT ![s].at = IF registry = NULL THEN "checked" ELSE "refused"]
    /\ UNCHANGED <<jobs, config, now, pc, wjob, registry, stop_event, runs, enqueued, out>>

\* the processes a start of `count` workers creates: the first free pids
launched(count) ==
    LET unborn == {w \in Workers : pc[w] = "unborn"}
    IN  {w \in unborn : Cardinality({v \in unborn : v < w}) < count}

\* the loop of Process(...).start()
StartLaunch(s, count) ==
    /\ sup[s].at = "checked"
    /\ Cardinality(launched(count)) = count
    /\ pc' = [w \in Workers |-> IF w \in launched(count) THEN "poll" ELSE pc[w]]
    /\ sup' = [sup EXCEPT ![s] = [at |-> "launched", workers |-> launched(count)]]
    /\ UNCHANGED <<jobs, config, now, wjob, registry, stop_event, runs, enqueued, out>>

\* open(WORKER_PID_FILE, 'w'): the pids of this start replace the content
StartWriteRegistry(s) ==
    /\ sup[s].at = "launched"
    /\ registry' = Some(sup[s].workers)
    /\ sup' = [sup EXCEPT ![s].at = "joining"]
    /\ UNCHANGED <<jobs, config, now, pc, wjob, stop_event, runs, enqueued, out>>

\* every p.join() returned: the file is removed
StartJoined(s) ==
    /\ sup[s].at = "joining"
    /\ \A w \in sup[s].workers : ~Alive(w)
    /\ registry' = NULL
    /\ sup' = [sup EXCEPT ![s].at = "returned"]
    /\ UNCHANGED <<jobs, config, now, pc, wjob, stop_event, runs, enqueued, out>>

\* the handler of KeyboardInterrupt without stop_event.set()
StartInterruptNoSignal(s) ==
    /\ sup[s].at = "joining"
    /\ sup' = [sup EXCEPT ![s].at = "interrupted"]
    /\ UNCHANGED <<jobs, config, now, pc, wjob, registry, stop_event, runs, enqueued, out>>

\* KeyboardInterrupt in the start command while it joins
StartInterrupt(s) ==
    /\ sup[s].at = "joining"
    /\ stop_event' = [stop_event EXCEPT ![s] = TRUE]
    /\ sup' = [sup EXCEPT ![s].at = "interrupted"]
    /\ UNCHANGED <<jobs, config, now, pc, wjob, registry, runs, enqueued, out>>

\* the joins with timeout=5 are over, the file is removed
StartCleanup(s) ==
    /\ sup[s].at = "interrupted"
    /\ registry' = NULL
    /\ sup' = [sup EXCEPT ![s].at = "returned"]
    /\ UNCHANGED <<jobs, config, now, pc, wjob, stop_event, runs, enqueued, out>>

\* a stop that removes the file only when every recorded pid took the signal
stop_when_all_signalled ==
    IF registry = NULL
      THEN /\ out' = "not_running"
           /\ UNCHANGED <<jobs, config, now, pc, wjob, registry, stop_event, sup,
                          runs, enqueued>>
      ELSE /\ pc' = [w \in Workers |->
                       IF w \in registry[1] /\ Alive(w) THEN "killed" ELSE pc[w]]
           /\ wjob' = [w \in Workers |->
                         IF w \in registry[1] /\ Alive(w) THEN NULL ELSE wjob[w]]
           /\ registry' = IF \A w \in registry[1] : Alive(w) THEN NULL ELSE registry
           /\ out' = "stop_signaled"
           /\ UNCHANGED <<jobs, config, now, stop_event, sup, runs, enqueued>>

\* queuectl worker stop.  Without the file it reports that no worker runs.
\* With it: SIGINT to every recorded pid (a pid that is gone is reported and
\* skipped), then the file is removed.  SIGINT raises KeyboardInterrupt in
\* the worker, which no handler of run_worker catches.
stop ==
    IF registry = NULL
      THEN /\ out' = "not_running"
           /\ UNCHANGED <<jobs, config, now, pc, wjob, registry, stop_event, sup,
                          runs, enqueued>>
      ELSE /\ pc' = [w \in Workers |->
                       IF w \in registry[1] /\ Alive(w) THEN "killed" ELSE pc[w]]
           /\ wjob' = [w \in Workers |->
                         IF w \in registry[1] /\ Alive(w) THEN NULL ELSE wjob[w]]
           /\ registry' = NULL
           /\ out' = "stop_signaled"
           /\ UNCHANGED <<jobs, config, now, stop_event, sup, runs, enqueued>>

ResultKinds == {"exit0", "exit1", "timeout", "spawn_fault", "config_fault"}

\* the commands an operator issues against the store
CliNext(ids, commands, payloads) ==
    \/ \E d \in JobData(ids, commands, payloads) : enqueue(d)
    \/ \E k \in ConfigKeys, v \in ConfigValues : config_set(k, v)
    \/ \E i \in ids : retry(i)

\* the steps of run_worker when nothing raises and the store never fails
WorkerNext ==
    \/ \E w \in Workers : WorkerSelect(w)
    \/ \E w \in Workers : WorkerClaim(w)
    \/ \E w \in Workers, r \in {"exit0", "exit1", "timeout"} : WorkerRun(w, r, TRUE)
    \/ \E w \in Workers : WorkerPrinted(w)

\* the steps of run_worker in which something raises or the store fails
FaultNext ==
    \/ \E w \in Workers : WorkerClaimStoreError(w)
    \/ \E w \in Workers, r \in {"spawn_fault", "config_fault"} : WorkerRun(w, r, TRUE)
    \/ \E w \in Workers, r \in ResultKinds : WorkerRun(w, r, FALSE)
    \/ \E w \in Workers, s \in BOOLEAN : WorkerPrintFault(w, s)

\* worker start and worker stop
PoolNext ==
    \/ \E s \in Starters : StartCheck(s)
    \/ \E s \in Starters, c \in 1..MaxWorkers : StartLaunch(s, c)
    \/ \E s \in Starters : StartWriteRegistry(s)
    \/ \E s \in Starters : StartJoined(s)
    \/ \E s \in Starters : StartInterrupt(s)
    \/ \E s \in Starters : StartCleanup(s)
    \/ stop
    \/ \E w \in Workers : WorkerExit(w)

\* The whole program, from an empty store with no worker started.
Next ==
    \/ Tick
    \/ CliNext(SoloIds, Commands, Payloads)
    \/ WorkerNext
    \/ FaultNext
    \/ PoolNext

Spec == Init /\ [][Next]_vars

\* A pool of MaxWorkers workers has been started and is left alone: the
\* store as the workers and the operator's commands drive it.  A worker that
\* is stopped, or was never started, takes no step, so every table the whole
\* program reaches is reached here.
InitJobs ==
    /\ jobs = << >>
    /\ config = init_db
    /\ now = 0
    /\ pc = [w \in Workers |-> "poll"]
    /\ wjob = [w \in Workers |-> NULL]
    /\ registry = Some(Workers)
    /\ stop_event = [s \in Starters |-> FALSE]
    /\ sup = [s \in Starters |->
                IF s = 1 THEN [at |-> "joining", workers |-> Workers]
                         ELSE [at |-> "idle", workers |-> {}]]
    /\ runs = [i \in JobIds |-> 0]
    /\ enqueued = 0
    /\ out = "none"

NextJobs ==
    \/ Tick
    \/ CliNext(SoloIds, Commands, Payloads)
    \/ WorkerNext
    \/ FaultNext

SpecJobs == InitJobs /\ [][NextJobs]_vars

\* The same, when nothing raises and the store never fails.
NextNoFault ==
    \/ Tick
    \/ CliNext(SoloIds, Commands, Payloads)
    \/ WorkerNext

SpecNoFault == InitJobs /\ [][NextNoFault]_vars

StoreCommands == {"ok", "fail"}
StorePayloads == {Some(MaxPayloadRetries)}

\* The same with MaxJobs ids, for the commands that read and write the table.
NextStore ==
    \/ Tick
    \/ CliNext(JobIds, StoreCommands, StorePayloads)
    \/ WorkerNext

SpecStore == InitJobs /\ [][NextStore]_vars

PoolCommands == {"ok"}
PoolPayloads == {NULL}

\* worker start and worker stop, invoked in any order and concurrently, over
\* a store that receives jobs whose command succeeds.
NextPool ==
    \/ \E d \in JobData(JobIds, PoolCommands, PoolPayloads) : enqueue(d)
    \/ WorkerNext
    \/ PoolNext

SpecPool == Init /\ [][NextPool]_vars

\* one step of the process of worker w that nothing makes raise
WorkerStep(w) ==
    \/ WorkerExit(w)
    \/ WorkerSelect(w)
    \/ WorkerClaim(w)
    \/ \E r \in {"exit0", "exit1", "timeout"} : WorkerRun(w, r, TRUE)
    \/ WorkerPrinted(w)

\* The same, every worker process being scheduled again and again: no
\* statement of run_worker blocks for ever (subprocess.run has timeout=30,
\* time.sleep is finite).
SpecPoolFair == SpecPool /\ \A w \in Workers : WF_vars(WorkerStep(w))

\* datetime.utcnow() advances without end.  Only the order of `now` and the
\* next_run_at of a row is ever read (worker.py:27), so at MaxTime the clock
\* is held and every next_run_at moves one step closer instead.
Advance ==
    /\ IF now < MaxTime
         THEN /\ now' = now + 1
              /\ UNCHANGED jobs
         ELSE /\ UNCHANGED now
              /\ jobs' = [i \in DOMAIN jobs |->
                            [jobs[i] EXCEPT !.next_run_at =
                                IF @ = NULL \/ @[1] = 0 THEN @ ELSE Some(@[1] - 1)]]
    /\ UNCHANGED <<config, pc, wjob, registry, stop_event, sup, runs, enqueued, out>>

\* subprocess.run and the write of its result, any number of times over.  No
\* statement compares the attempts of a job whose command times out
\* (worker.py:117-121), so that count is kept up to MaxAttempts.
WorkerRunOn(w) ==
    /\ pc[w] = "running"
    /\ LET job == wjob[w][1]
           result == CommandResult(job.command)
           seen == IF result = "timeout" /\ job.attempts >= MaxAttempts
                     THEN [job EXCEPT !.attempts = MaxAttempts - 1] ELSE job
       IN  /\ jobs' = result_write(jobs, config, now, seen, result)
           /\ IF result \in {"exit0", "exit1"}
                THEN /\ pc' = [pc EXCEPT ![w] = "wrote"]
                     /\ UNCHANGED wjob
                ELSE /\ pc' = [pc EXCEPT ![w] = "poll"]
                     /\ wjob' = [wjob EXCEPT ![w] = NULL]
    /\ UNCHANGED <<config, now, registry, stop_event, sup, runs, enqueued, out>>

\* one step of the process of worker w, nothing raising
WorkerOn(w) ==
    \/ WorkerSelect(w)
    \/ WorkerClaim(w)
    \/ WorkerRunOn(w)
    \/ WorkerPrinted(w)

\* `queuectl worker start --count c` has launched its workers and joins them
InitLive ==
    /\ jobs = << >>
    /\ config = init_db
    /\ now = 0
    /\ \E c \in 1..MaxWorkers :
         /\ pc = [w \in Workers |-> IF w <= c THEN "poll" ELSE "unborn"]
         /\ registry = Some(1..c)
         /\ sup = [s \in Starters |->
                     IF s = 1 THEN [at |-> "joining", workers |-> 1..c]
                              ELSE [at |-> "idle", workers |-> {}]]
    /\ wjob = [w \in Workers |-> NULL]
    /\ stop_event = [s \in Starters |-> FALSE]
    /\ runs = [i \in JobIds |-> 0]
    /\ enqueued = 0
    /\ out = "none"

NextLive ==
    \/ Advance
    \/ \E d \in JobData(JobIds, Commands, StorePayloads) : enqueue(d)
    \/ \E w \in Workers : WorkerOn(w)

\* Started workers that are never stopped, over a store that receives jobs:
\* every worker process is scheduled again and again, and time passes.
SpecLive ==
    /\ InitLive
    /\ [][NextLive]_vars
    /\ WF_vars(Advance)
    /\ \A w \in Workers : WF_vars(WorkerOn(w))

\* RaceWorkers processes each call acquire_job_atomically once, against a
\* table of n pending rows that are all due.
RECURSIVE PendingTable(_)
PendingTable(n) ==
    IF n = 0 THEN << >>
    ELSE insert_job(PendingTable(n - 1), init_db, n - 1,
                    [id |-> n, command |-> "ok", max_retries |-> NULL]).jobs

InitRace ==
    /\ \E n \in 1..MaxJobs : jobs = PendingTable(n) /\ enqueued = n
    /\ config = init_db
    /\ now \in 0..MaxTime
    /\ pc = [w \in Racers |-> "call"]
    /\ wjob = [w \in Racers |-> NULL]
    /\ registry = NULL
    /\ stop_event = [s \in Starters |-> FALSE]
    /\ sup = [s \in Starters |-> [at |-> "idle", workers |-> {}]]
    /\ runs = [i \in JobIds |-> 0]
    /\ out = "none"

RaceSelect(w) ==
    /\ pc[w] = "call"
    /\ acquire_select(w, "none")
    /\ UNCHANGED <<jobs, config, now, registry, stop_event, sup, runs, enqueued, out>>

RaceUpdate(w) ==
    /\ pc[w] = "selected"
    /\ acquire_update(w, "claimed", "none")
    /\ UNCHANGED <<config, now, registry, stop_event, sup, runs, enqueued, out>>

NextRace ==
    \/ \E w \in Racers : RaceSelect(w)
    \/ \E w \in Racers : RaceUpdate(w)

SpecRace == InitRace /\ [][NextRace]_vars

\* ------------------------------------------------------------------ claims
\* worker w holds job i: acquire_job_atomically returned it to w and w has
\* not yet written the result of running it
Holds(w, i) == pc[w] = "running" /\ wjob[w] # NULL /\ wjob[w][1].id = i

Budget(i) == jobs[i].max_retries + 1

\* C1: in every reachable state at most one worker holds a given job.
MutualExclusion ==
    \A i \in JobIds : Cardinality({w \in DOMAIN pc : Holds(w, i)}) <= 1

\* C2: once each of the RaceWorkers callers has returned from its one call of
\* acquire_job_atomically against N pending due jobs (RaceWorkers > N), exactly
\* N of the calls returned a job and no job was returned to two of them.
RaceDone == \A w \in DOMAIN pc : pc[w] \in {"claimed", "none"}
ExactlyNClaims ==
    RaceDone =>
        /\ Cardinality({w \in DOMAIN pc : pc[w] = "claimed"}) = Cardinality(DOMAIN jobs)
        /\ \A v, w \in DOMAIN pc :
             (pc[v] = "claimed" /\ pc[w] = "claimed" /\ v # w)
                 => wjob[v][1].id # wjob[w][1].id

\* C3: a job with max_retries = R whose command always exits non-zero is
\* executed at most R + 1 times between enqueue (or a dlq retry) and the next
\* dlq retry, and is dead exactly when it has been executed R + 1 times, with
\* attempts = R + 1.
AlwaysFailingRunsBudget ==
    \A i \in DOMAIN jobs :
        jobs[i].command = "fail" =>
            /\ runs[i] <= Budget(i)
            /\ jobs[i].state = "dead" =>
                   (runs[i] = Budget(i) /\ jobs[i].attempts = Budget(i))

\* C4: every job whose state is dead has attempts > max_retries.
DeadOnlyAfterBudget ==
    \A i \in DOMAIN jobs :
        jobs[i].state = "dead" => jobs[i].attempts > jobs[i].max_retries

\* a job has been moved to dead by its last permitted failure
DeadJobReached ==
    \E i \in DOMAIN jobs :
        /\ jobs[i].state = "dead"
        /\ jobs[i].attempts = Budget(i)
        /\ jobs[i].max_retries = MaxPayloadRetries

\* C5: a job whose every execution times out is executed at most
\* max_retries + 1 times (after which it would be dead).
TimeoutsStopAtBudget ==
    \A i \in DOMAIN jobs :
        jobs[i].command = "hang" => runs[i] <= Budget(i)

\* C6: an enqueue whose id already exists is rejected and leaves every row,
\* and the number of rows, as they were.
DuplicateEnqueueRejected ==
    [][\A d \in JobData(JobIds, Commands, Payloads) :
         (d.id \in DOMAIN jobs /\ enqueue(d)) =>
             /\ out' = "duplicate"
             /\ DOMAIN jobs' = DOMAIN jobs
             /\ \A i \in DOMAIN jobs : jobs'[i] = jobs[i]
             /\ enqueued' = enqueued]_vars

\* a duplicate was reported against a table whose rows have left pending
DuplicateReported ==
    /\ out = "duplicate"
    /\ DOMAIN jobs = JobIds
    /\ \E i \in JobIds : jobs[i].state = "dead" /\ jobs[i].attempts > 0
    /\ \E i \in JobIds : jobs[i].state = "completed"

\* C7: dlq retry of an absent id or of a job that is not dead reports failure
\* and changes no row; of a dead job it reports success and sets state to
\* pending, attempts to 0, next_run_at and error_message to NULL, and changes
\* nothing else in that row or any other.
RetryDeadContract ==
    [][\A i \in JobIds :
         retry(i) =>
             IF i \in DOMAIN jobs /\ jobs[i].state = "dead"
               THEN /\ out' = "retried"
                    /\ DOMAIN jobs' = DOMAIN jobs
                    /\ jobs'[i].state = "pending"
                    /\ jobs'[i].attempts = 0
                    /\ jobs'[i].next_run_at = NULL
                    /\ jobs'[i].error_message = NULL
                    /\ jobs'[i].command = jobs[i].command
                    /\ jobs'[i].max_retries = jobs[i].max_retries
                    /\ jobs'[i].created_at = jobs[i].created_at
                    /\ \A k \in DOMAIN jobs \ {i} : jobs'[k] = jobs[k]
               ELSE /\ out' = "not_dead"
                    /\ DOMAIN jobs' = DOMAIN jobs
                    /\ \A k \in DOMAIN jobs : jobs'[k] = jobs[k]]_vars

\* a dead job was reset while the other job had left pending
RetriedBesideOther ==
    /\ out = "retried"
    /\ \E i, k \in DOMAIN jobs :
         /\ i # k
         /\ jobs[i].state = "pending" /\ jobs[i].attempts = 0 /\ runs[i] = 0
         /\ jobs[i].error_message = NULL
         /\ jobs[k].state \in {"dead", "completed", "processing"}

\* C8: for each of the five states the count status prints equals the number
\* of rows list returns, and the five counts add up to the number of
\* successful enqueues.
SummaryMatchesListing ==
    /\ \A n \in 1..Len(States) :
         status_count(jobs, States[n]) = Cardinality(get_jobs_by_state(jobs, States[n]))
    /\ status_total(jobs, Len(States)) = enqueued

\* every id is in use, no two rows share a state, one row has finished
RowsSpreadOverStates ==
    /\ enqueued = MaxJobs
    /\ Cardinality({jobs[i].state : i \in DOMAIN jobs}) = Cardinality(DOMAIN jobs)
    /\ \E i \in DOMAIN jobs : jobs[i].state \in {"completed", "dead"}

\* C9: when a run exits non-zero with attempts_taken <= max_retries and the
\* result is written, the job is pending with attempts = attempts_taken and
\* next_run_at = now + backoff_base ^ attempts_taken, backoff_base being the
\* value the config table holds at that step.
BackoffUsesCurrentBase ==
    [][\A w \in Workers :
         (/\ pc[w] = "running"
          /\ WorkerRun(w, "exit1", TRUE)
          /\ wjob[w][1].attempts + 1 <= wjob[w][1].max_retries) =>
             LET i == wjob[w][1].id
                 attempts_taken == wjob[w][1].attempts + 1
             IN  /\ jobs'[i].state = "pending"
                 /\ jobs'[i].attempts = attempts_taken
                 /\ jobs'[i].next_run_at =
                        Some(now + Pow(config["backoff_base"], attempts_taken))]_vars

\* a first failure was written at time 0 under a base that is not the
\* default the store was created with
BackoffUnderChangedBase ==
    /\ now = 0
    /\ config["backoff_base"] # DefaultBackoffBase
    /\ \E i \in DOMAIN jobs :
         /\ jobs[i].state = "pending"
         /\ jobs[i].attempts = 1
         /\ jobs[i].error_message = Some("exit")
         /\ jobs[i].next_run_at = Some(Pow(config["backoff_base"], 1))

\* C10: a worker that holds a claimed job leaves that position only by
\* writing the result of the run: it is never ended while it holds the job.
HoldersFinishTheirJob ==
    [][\A w \in Workers :
         pc[w] = "running" => pc'[w] \in {"running", "wrote", "poll"}]_vars

\* C11: a start that finds the registry present refuses: it launches no
\* worker, leaves the registry and every job as they are, and takes no later
\* step; a worker process is created only by a start whose check found no
\* registry.
StartRefusesWhileRegistryExists ==
    [][/\ \A s \in Starters :
            (StartCheck(s) /\ registry # NULL) =>
                /\ sup'[s].at = "refused"
                /\ pc' = pc
                /\ registry' = registry
                /\ jobs' = jobs
       /\ \A s \in Starters : sup[s].at = "refused" => sup'[s] = sup[s]
       /\ \A s \in Starters :
            (sup[s].at # "checked" /\ sup'[s].at = "checked") => registry = NULL
       /\ \A w \in Workers :
            (pc[w] = "unborn" /\ pc'[w] # "unborn") =>
                \E s \in Starters : /\ sup[s].at = "checked"
                                    /\ w \in sup'[s].workers]_vars

\* a start was refused while the workers of another start run over a store
\* that holds a job
StartRefused ==
    /\ registry # NULL
    /\ DOMAIN jobs # {}
    /\ \E s, t \in Starters :
         /\ sup[s].at = "refused" /\ sup[s].workers = {}
         /\ sup[t].at = "joining"
         /\ \E w \in sup[t].workers : Alive(w)

\* C12: after every stop the registry does not exist, whatever became of the
\* processes it named; a stop that finds no registry reports that no worker
\* runs, signals no process and changes nothing else.
StopClearsRegistry ==
    [][stop =>
         /\ registry' = NULL
         /\ registry = NULL =>
                /\ out' = "not_running"
                /\ pc' = pc
                /\ wjob' = wjob
                /\ sup' = sup
                /\ stop_event' = stop_event
                /\ jobs' = jobs]_vars

\* one start launched both workers; one of them had left its loop when stop
\* signalled the other, and a second stop found no registry
StoppedTwice ==
    /\ out = "not_running"
    /\ registry = NULL
    /\ \E s \in Starters : sup[s].workers = Workers
    /\ \E w \in Workers : pc[w] = "exited"
    /\ \E w \in Workers : pc[w] = "killed"

\* C13: a job in processing is in the hands of a worker that is running it or
\* has just written its result: no job is in processing while every worker
\* that claimed it is back at the loop test or has left the loop.
NoStrandedProcessing ==
    \A i \in DOMAIN jobs :
        jobs[i].state = "processing" =>
            \E w \in Workers :
                /\ pc[w] \in {"running", "wrote"}
                /\ wjob[w][1].id = i

\* C14: a write made by run_worker after an execution (the result, or the
\* write of a handler) leaves a job unchanged when the job is not in
\* processing at the time of the write.
OutcomeWriteGuarded ==
    [][\A w \in Workers :
         (\/ \E r \in ResultKinds, stored \in BOOLEAN : WorkerRun(w, r, stored)
          \/ \E stored \in BOOLEAN : WorkerPrintFault(w, stored)) =>
             \A i \in DOMAIN jobs :
                 jobs[i].state # "processing" => jobs'[i] = jobs[i]]_vars

\* the job of row i may be claimed at time t
Due(tbl, i, t) ==
    /\ tbl[i].state = "pending"
    /\ (tbl[i].next_run_at = NULL \/ tbl[i].next_run_at[1] <= t)

\* C15: whenever acquire_job_atomically returns a job to a worker, that job
\* was pending with next_run_at NULL or <= now when the claim committed: a
\* job waiting for its retry is not run before its next_run_at.
ClaimRespectsBackoff ==
    [][\A w \in Workers :
         (pc[w] = "selected" /\ pc'[w] = "running") =>
             Due(jobs, wjob[w][1].id, now)]_vars

\* C16: whenever acquire_job_atomically returns a job to a worker, no job
\* that was pending and due when the claim committed has an earlier
\* created_at than the returned job.
ClaimGrantsOldestDue ==
    [][\A w \in Workers :
         (pc[w] = "selected" /\ pc'[w] = "running") =>
             \A k \in DOMAIN jobs :
                 Due(jobs, k, now) =>
                     jobs[wjob[w][1].id].created_at <= jobs[k].created_at]_vars

ConfigSetLeavesJobs ==
    [][/\ \A k \in ConfigKeys, v \in ConfigValues :
            config_set(k, v) => jobs' = jobs
       /\ \A d \in JobData(SoloIds, Commands, Payloads) :
            (d.id \notin DOMAIN jobs /\ enqueue(d)) =>
                jobs'[d.id].max_retries =
                    IF d.max_retries = NULL THEN config["max_retries"]
                                            ELSE d.max_retries[1]
       /\ \A i \in DOMAIN jobs :
            /\ i \in DOMAIN jobs'
            /\ jobs'[i].max_retries = jobs[i].max_retries]_vars

\* both keys were changed after a job took its max_retries from the default
\* and while it waits for a retry computed, at time 0, from the default
\* backoff_base
ConfigChangedUnderWaitingJob ==
    /\ now = 0
    /\ config["max_retries"] # DefaultMaxRetries
    /\ config["backoff_base"] # DefaultBackoffBase
    /\ \E i \in DOMAIN jobs :
         /\ jobs[i].max_retries = DefaultMaxRetries
         /\ jobs[i].state = "pending"
         /\ jobs[i].attempts = 1
         /\ jobs[i].next_run_at = Some(Pow(DefaultBackoffBase, 1))

\* the changes of state the job lifecycle allows
Transitions ==
    {<<"pending", "processing">>, <<"processing", "completed">>,
     <<"processing", "pending">>, <<"processing", "dead">>, <<"dead", "pending">>}

\* C19: a new row is pending; a row changes state only along pending ->
\* processing, processing -> completed | pending | dead and dead -> pending,
\* the last by dlq retry alone; so a completed row keeps its state and no row
\* is ever failed.
LifecycleTransitions ==
    [][\A i \in JobIds :
         /\ (i \notin DOMAIN jobs /\ i \in DOMAIN jobs') => jobs'[i].state = "pending"
         /\ i \in DOMAIN jobs =>
                /\ i \in DOMAIN jobs'
                /\ \/ jobs'[i].state = jobs[i].state
                   \/ <<jobs[i].state, jobs'[i].state>> \in Transitions
                /\ (jobs[i].state = "dead" /\ jobs'[i].state # "dead") => retry(i)
                /\ jobs'[i].state # "failed"]_vars

\* C20: every job has 0 <= attempts <= max_retries + 1.
AttemptsWithinBudget ==
    \A i \in DOMAIN jobs :
        /\ 0 <= jobs[i].attempts
        /\ jobs[i].attempts <= Budget(i)

\* the start invocations one of whose workers is still running
LivePools == {s \in Starters : \E w \in sup[s].workers : Alive(w)}

\* C22: whenever a worker of some start is running the registry exists, and
\* the workers of at most one start are running at a time.
OnePoolLive ==
    /\ (\E w \in Workers : Alive(w)) => registry # NULL
    /\ Cardinality(LivePools) <= 1

\* C21: every job in the store whose command ends with an exit code
\* eventually is completed or dead.
JobsEventuallyFinish ==
    \A i \in JobIds :
        (i \in DOMAIN jobs /\ jobs[i].command \in {"ok", "fail"})
            ~> (i \in DOMAIN jobs /\ jobs[i].state \in {"completed", "dead"})
====
